---- MODULE Spec2Model ----
(***************************************************************************)
(* Model of the scene-graph engine of the ui-debugger's Visualization2D    *)
(* component: toNestedNode, caclulateFocusState, hitTest, getTotalOffset   *)
(* and the throttled mouse listener with its gating flags.                 *)
(***************************************************************************)
EXTENDS Integers, Sequences, FiniteSets, TLC

\* ----------------------------------------------------------------- bounds
\* number of ids present in the raw node map
NumIds == 4
\* pointer coordinates range over 0..MaxCoord on both axes
MaxCoord == 2

\* --------------------------------------------------------------- constants
\* const MouseThrottle = 32
MouseThrottle == 32

\* ------------------------------------------------------------ JS encodings
\* null / undefined where an Id is expected (parent, activeChild, target)
Null == 0
\* activeChildIdx left undefined
Undefined == 0 - 2
\* optional values: <<>> is undefined, <<v>> is v
None == <<>>
Some(v) == <<v>>

Ids == 1..NumIds
\* an id that no raw node map contains
Ghost == NumIds + 1

\* ------------------------------------------------------ geometry primitives
boundsContainsCoordinate(bounds, coordinate) ==
  /\ coordinate.x >= bounds.x
  /\ coordinate.x <= bounds.x + bounds.width
  /\ coordinate.y >= bounds.y
  /\ coordinate.y <= bounds.y + bounds.height

offsetCoordinate(coordinate, offset) ==
  [x |-> coordinate.x - offset.x, y |-> coordinate.y - offset.y]

\* Array.prototype.indexOf: zero-based position of the first match, else -1
RECURSIVE indexOfFrom(_, _, _)
indexOfFrom(arr, v, i) ==
  IF i > Len(arr) THEN 0 - 1
  ELSE IF arr[i] = v THEN i - 1
  ELSE indexOfFrom(arr, v, i + 1)

indexOf(arr, v) == indexOfFrom(arr, v, 1)

\* ----------------------------------------------------------- toNestedNode
\* a mis-filter that also loses the first resolving child
nonNullChildrenDropFirst(node, nodeMap) ==
  LET kept == SelectSeq(node.children, LAMBDA childId : childId \in DOMAIN nodeMap)
  IN  IF kept = <<>> THEN kept ELSE Tail(kept)

nonNullChildren(node, nodeMap) ==
  SelectSeq(node.children, LAMBDA childId : childId \in DOMAIN nodeMap)

activeChildIdxOf(node, kept) ==
  IF node.activeChild # Null THEN indexOf(kept, node.activeChild) ELSE Undefined

RECURSIVE uiNodeToNestedNode(_, _)
uiNodeToNestedNode(node, nodeMap) ==
  LET kept == nonNullChildren(node, nodeMap)
  IN  [id |-> node.id,
       children |-> [i \in 1..Len(kept) |-> uiNodeToNestedNode(nodeMap[kept[i]], nodeMap)],
       bounds |-> node.bounds,
       activeChildIdx |-> activeChildIdxOf(node, kept)]

toNestedNode(root, nodeMap) ==
  IF root \in DOMAIN nodeMap THEN Some(uiNodeToNestedNode(nodeMap[root], nodeMap)) ELSE None

\* ---------------------------------------------------- caclulateFocusState
\* immer's produce(node, draft => { draft.bounds.x = 0; draft.bounds.y = 0 })
zeroedCopy(node) ==
  [node EXCEPT !.bounds = [@ EXCEPT !.x = 0, !.y = 0]]

\* the offset handed back for a match, without the match's own bounds
matchOffsetExclusive(globalOffset, nextOffset) == globalOffset

matchOffset(globalOffset, nextOffset) == nextOffset

RECURSIVE findNodeAndGlobalOffsetRec(_, _, _, _)
RECURSIVE findInChildren(_, _, _, _, _)
findNodeAndGlobalOffsetRec(node, globalOffset, root, target) ==
  LET nextOffset == [x |-> globalOffset.x + node.bounds.x,
                     y |-> globalOffset.y + node.bounds.y]
  IN  IF node.id = target
      THEN Some([actualRoot |-> root,
                 focusedRoot |-> zeroedCopy(node),
                 focusedRootGlobalOffset |-> matchOffset(globalOffset, nextOffset)])
      ELSE findInChildren(node.children, 1, nextOffset, root, target)

\* the for-of loop over node.children: the first child that yields a result
findInChildren(children, i, nextOffset, root, target) ==
  IF i > Len(children) THEN None
  ELSE LET offset == findNodeAndGlobalOffsetRec(children[i], nextOffset, root, target)
       IN  IF offset # None THEN offset
           ELSE findInChildren(children, i + 1, nextOffset, root, target)

caclulateFocusState(root, target) ==
  LET rootFocusState == [actualRoot |-> root,
                         focusedRoot |-> root,
                         focusedRootGlobalOffset |-> [x |-> 0, y |-> 0]]
  IN  IF target = Null THEN rootFocusState
      ELSE LET found == findNodeAndGlobalOffsetRec(root, [x |-> 0, y |-> 0], root, target)
           IN  IF found # None THEN found[1] ELSE rootFocusState

\* ---------------------------------------------------------------- hitTest
area(node) == node.bounds.height * node.bounds.width

\* Array.prototype.sort with the area comparator: stable, ascending
RECURSIVE insertByArea(_, _)
insertByArea(sorted, node) ==
  IF sorted = <<>> THEN <<node>>
  ELSE IF area(Head(sorted)) > area(node) THEN <<node>> \o sorted
  ELSE <<Head(sorted)>> \o insertByArea(Tail(sorted), node)

RECURSIVE sortFrom(_, _, _)
sortFrom(res, i, acc) ==
  IF i > Len(res) THEN acc ELSE sortFrom(res, i + 1, insertByArea(acc, res[i]))

\* the result handed back in push order
sortByAreaOmitted(res) == res

sortByArea(res) == sortFrom(res, 1, <<>>)

\* the children hitTestRec descends into; holes is TRUE when the selected
\* array element does not exist (node.children[idx] is undefined)
hitTestChildrenAll(node) ==
  [list |-> node.children, holes |-> FALSE]

hitTestChildren(node) ==
  IF node.activeChildIdx # Undefined
  THEN IF node.activeChildIdx >= 0 /\ node.activeChildIdx < Len(node.children)
       THEN [list |-> <<node.children[node.activeChildIdx + 1]>>, holes |-> FALSE]
       ELSE [list |-> <<>>, holes |-> TRUE]
  ELSE [list |-> node.children, holes |-> FALSE]

RECURSIVE hitTestRec(_, _)
\* returns [hit, res, threw]: the boolean result, the nodes pushed to res in
\* push order, and whether reading .bounds of an undefined child threw
hitTestRec(node, mouseCoordinate) ==
  LET thisNodeHit == boundsContainsCoordinate(node.bounds, mouseCoordinate)
      children == hitTestChildren(node)
      offsetMouseCoord == offsetCoordinate(mouseCoordinate, node.bounds)
      sub == [i \in 1..Len(children.list) |-> hitTestRec(children.list[i], offsetMouseCoord)]
      childHit == \E i \in 1..Len(sub) : sub[i].hit
      RECURSIVE pushed(_)
      pushed(i) == IF i > Len(sub) THEN <<>> ELSE sub[i].res \o pushed(i + 1)
      hit == thisNodeHit /\ ~childHit
  IN  IF children.holes \/ \E i \in 1..Len(sub) : sub[i].threw
      THEN [hit |-> FALSE, res |-> <<>>, threw |-> TRUE]
      ELSE [hit |-> hit,
            res |-> IF hit THEN pushed(1) \o <<node>> ELSE pushed(1),
            threw |-> FALSE]

hitTest(node, mouseCoordinate) ==
  LET r == hitTestRec(node, mouseCoordinate)
  IN  [threw |-> r.threw, res |-> IF r.threw THEN <<>> ELSE sortByArea(r.res)]

\* ------------------------------------------------------------------ state
VARIABLES
  nodes,          \* the raw node map  Id -> ClientNode  (prop `nodes`)
  snapshotNodeId, \* snapshot.nodeId used by the last focusState computation
  focusedNodeId,  \* instance.uiState.focusedNode used by that computation
  rootNode,       \* toNestedNode's result (None: undefined)
  focusState,     \* the memoised focusState (None: undefined)
  hitCall,        \* the last call of hitTest: None or <<[mouse, threw, res]>>
  offArg,         \* getTotalOffset: the id argument
  curId,          \* getTotalOffset: curId
  offset,         \* getTotalOffset: offset
  offPc,          \* getTotalOffset: "idle", "loop" or "done"
  offIters,       \* getTotalOffset: iterations of the while loop so far
  width,          \* the width prop (available display width)
  isContextMenuOpen, \* instance.uiState.isContextMenuOpen
  visualizerActive,  \* the visualizerActive ref
  hoveredNodes,   \* instance.uiState.hoveredNodes
  pointerOver,    \* the pointer is over the surface: entered, not left since
  lastGateEvent,  \* the latest of "enter", "leave", "close" ("none" before any)
  lastArgs,       \* throttle: the pending event (None: undefined)
  timeSinceLastCall,   \* throttle: now - lastCallTime, capped at MouseThrottle
  timeSinceLastInvoke, \* throttle: now - lastInvokeTime, capped at MouseThrottle
  timerId,        \* throttle: None, or <<ms left until the timer is due>>
  sinceLeading,   \* ms since the last event processed on arrival, capped
  sample          \* what the last step of the throttled listener did

geoVars == <<nodes, snapshotNodeId, focusedNodeId, rootNode, focusState, hitCall>>
offVars == <<offArg, curId, offset, offPc, offIters>>
uiVars == <<width, isContextMenuOpen, visualizerActive, hoveredNodes, pointerOver, lastGateEvent>>
throttleVars == <<lastArgs, timeSinceLastCall, timeSinceLastInvoke, timerId, sinceLeading, sample>>
vars == <<geoVars, offVars, uiVars, throttleVars>>

\* ----------------------------------------------------- raw node map inputs
Big == [x |-> 0, y |-> 0, width |-> MaxCoord, height |-> MaxCoord]
Small == [x |-> 1, y |-> 0, width |-> 1, height |-> 1]

\* parent links of a tree over Ids rooted at 1
ParentFns == {p \in [2..NumIds -> Ids] : \A i \in 2..NumIds : p[i] < i}

RECURSIVE childIdsFrom(_, _, _)
childIdsFrom(p, i, j) ==
  IF j > NumIds THEN <<>>
  ELSE (IF p[j] = i THEN <<j>> ELSE <<>>) \o childIdsFrom(p, i, j + 1)

\* p: parent links; g: 0, or the node whose child list starts with the dangling
\* id, or Ghost when the root's parent link dangles; an/av: the node carrying
\* activeChild and its value (one of its children, a dangling id, or an id
\* that resolves but is no child of it); big: the nodes with the large bounds
ClientNodes(p, g, an, av, big) ==
  [i \in Ids |->
    [id |-> i,
     children |-> (IF g = i THEN <<Ghost>> ELSE <<>>) \o childIdsFrom(p, i, 2),
     activeChild |-> IF an = i THEN av ELSE Null,
     parent |-> IF i = 1 THEN (IF g = Ghost THEN Ghost ELSE Null) ELSE p[i],
     bounds |-> IF i \in big THEN Big ELSE Small]]

\* the dangling id heads the child list of the root or of node 2, or is the
\* root's parent; activeChild is carried by the root or by node 2
RawMaps ==
  {ClientNodes(p, g, a[1], a[2], big) :
     p \in ParentFns, g \in {Null, 1, 2, Ghost},
     a \in {<<Null, Null>>} \cup {b \in {1, 2} \X (Ids \cup {Ghost}) : b[2] >= b[1]},
     big \in {{}} \cup {{i} : i \in Ids}}

Coordinates == [x : 0..MaxCoord, y : 0..MaxCoord]

\* the throttled listener as created, nothing called yet: lastCallTime is
\* undefined and lastInvokeTime is 0, both at least MouseThrottle ms ago
\* (only the comparisons with the wait decide, so elapsed times are kept
\* capped at MouseThrottle)
InitListener ==
  /\ width = 1
  /\ isContextMenuOpen = FALSE
  /\ visualizerActive = FALSE
  /\ hoveredNodes = <<>>
  /\ pointerOver = FALSE
  /\ lastGateEvent = "none"
  /\ lastArgs = None
  /\ timeSinceLastCall = MouseThrottle
  /\ timeSinceLastInvoke = MouseThrottle
  /\ timerId = None
  /\ sinceLeading = MouseThrottle
  /\ sample = [edge |-> "none", ev |-> None, hitTested |-> FALSE, spaced |-> TRUE,
               leadSpaced |-> TRUE, idleBefore |-> FALSE, hadPending |-> FALSE]

InitOffset ==
  /\ offArg = Null
  /\ curId = Null
  /\ offset = [x |-> 0, y |-> 0]
  /\ offPc = "idle"
  /\ offIters = 0

Init ==
  /\ nodes \in RawMaps
  /\ snapshotNodeId = Null
  /\ focusedNodeId = Null
  /\ rootNode = None
  /\ focusState = None
  /\ hitCall = None
  /\ InitOffset
  /\ InitListener

\* ---------------------------------------------------------------- actions
\* the useMemo that derives focusState from snapshot, nodes and focusedNodeId;
\* one derivation per behaviour, from the inputs drawn here
ComputeFocusState ==
  \E rid \in {1, Ghost}, target \in {Null} \cup Ids \cup {Ghost} :
    LET projected == toNestedNode(rid, nodes)
    IN  /\ snapshotNodeId = Null
        /\ snapshotNodeId' = rid
        /\ focusedNodeId' = target
        /\ rootNode' = projected
        /\ focusState' = IF projected = None THEN None
                         ELSE Some(caclulateFocusState(projected[1], target))
        /\ hitCall' = None
        /\ UNCHANGED <<nodes, offVars, uiVars, throttleVars>>

\* hitTest(focusState.focusedRoot, mouse)
HitTest ==
  /\ focusState # None
  /\ hitCall = None
  /\ \E mouse \in Coordinates :
       LET r == hitTest(focusState[1].focusedRoot, mouse)
       IN  hitCall' = Some([mouse |-> mouse, threw |-> r.threw, res |-> r.res])
  /\ UNCHANGED <<nodes, snapshotNodeId, focusedNodeId, rootNode, focusState, offVars, uiVars, throttleVars>>

NextGeo == ComputeFocusState \/ HitTest

SpecGeo == Init /\ [][NextGeo]_vars

\* ---------------------------------------------------------- getTotalOffset
\* cur?.parent taken only from the argument's own node: the walk stops after
\* one level
parentOfCurOneLevel(nodeMap, id) == Null

\* cur?.parent, with cur = nodes.get(curId): undefined when cur is undefined
parentOfCur(nodeMap, id) ==
  IF id \in DOMAIN nodeMap THEN nodeMap[id].parent ELSE Null

\* const offset = {x: 0, y: 0}; let curId = id
CallGetTotalOffset ==
  /\ offPc = "idle"
  /\ \E id \in Ids \cup {Ghost} :
       /\ offArg' = id
       /\ curId' = id
  /\ offset' = [x |-> 0, y |-> 0]
  /\ offIters' = 0
  /\ offPc' = "loop"
  /\ UNCHANGED <<geoVars, uiVars, throttleVars>>

\* one pass through the body of while (curId != null)
LoopIteration ==
  /\ offPc = "loop"
  /\ curId # Null
  /\ offset' = IF curId \in DOMAIN nodes
               THEN [x |-> offset.x + nodes[curId].bounds.x,
                     y |-> offset.y + nodes[curId].bounds.y]
               ELSE offset
  /\ curId' = parentOfCur(nodes, curId)
  /\ offIters' = offIters + 1
  /\ UNCHANGED <<geoVars, uiVars, throttleVars, offArg, offPc>>

\* the loop condition fails: return offset
ReturnOffset ==
  /\ offPc = "loop"
  /\ curId = Null
  /\ offPc' = "done"
  /\ UNCHANGED <<geoVars, uiVars, throttleVars, offArg, curId, offset, offIters>>

NextOffset == CallGetTotalOffset \/ LoopIteration \/ ReturnOffset

SpecOffset == Init /\ [][NextOffset]_vars

\* ------------------------------------------------- the throttled listener
\* snapshotBounds.width / availableWidth; the widths used here divide evenly,
\* so the integer quotient is the JS quotient
calcPxScaleFactor(snapshotBounds, availableWidth) ==
  snapshotBounds.width \div availableWidth

\* snapshot && nodes.get(snapshot.nodeId)
snapshotNode ==
  IF snapshotNodeId \in DOMAIN nodes THEN Some(nodes[snapshotNodeId]) ELSE None

\* rootNodeRef.current?.getBoundingClientRect(): undefined while the component
\* renders null; otherwise the inner div, focusedRoot's size scaled by toPx,
\* one css pixel right of and below the viewport's origin
domRect ==
  IF focusState = None \/ snapshotNode = None THEN None
  ELSE LET pxScaleFactor == calcPxScaleFactor(snapshotNode[1].bounds, width)
       IN  Some([x |-> 1, y |-> 1,
                 width |-> focusState[1].focusedRoot.bounds.width \div pxScaleFactor,
                 height |-> focusState[1].focusedRoot.bounds.height \div pxScaleFactor])

\* the pointer-move events delivered to window: left of, on the left edge of
\* and on the right edge of the surface
MouseEvents == {[x |-> cx, y |-> 1] : cx \in 0..2}

\* the early return without the context-menu test
gatesPassMenuUnchecked(fs, rect, menuOpen, snap, active) ==
  fs # None /\ rect # None /\ snap # None /\ active

\* the negation of the first early return of mouseListener
gatesPass(fs, rect, menuOpen, snap, active) ==
  fs # None /\ rect # None /\ ~menuOpen /\ snap # None /\ active

\* instance.uiActions.onHoverNode(...ids): replaces the hover id list
onHoverNode(ids) == ids

\* the body of the throttled function: whether it reached hitTest, and the
\* hover list it leaves behind
mouseListener(ev) ==
  IF ~gatesPass(focusState, domRect, isContextMenuOpen, snapshotNode, visualizerActive)
  THEN [hitTested |-> FALSE, hovered |-> hoveredNodes]
  ELSE IF ~boundsContainsCoordinate(domRect[1], ev)
  THEN [hitTested |-> FALSE, hovered |-> hoveredNodes]
  ELSE LET pxScaleFactor == calcPxScaleFactor(snapshotNode[1].bounds, width)
           offsetMouse == offsetCoordinate(ev, domRect[1])
           scaledMouse == [x |-> offsetMouse.x * pxScaleFactor,
                           y |-> offsetMouse.y * pxScaleFactor]
           r == hitTest(focusState[1].focusedRoot, scaledMouse)
           hitNodes == [i \in 1..Len(r.res) |-> r.res[i].id]
       IN  [hitTested |-> TRUE,
            hovered |-> IF ~r.threw /\ Len(hitNodes) > 0 /\ hitNodes # hoveredNodes
                        THEN onHoverNode(hitNodes)
                        ELSE hoveredNodes]

\* lodash throttle(func, wait) is debounce(func, wait, {leading, maxWait: wait,
\* trailing}) with both edges on by default
leading == TRUE

trailingOff == FALSE

trailing == TRUE

\* debounce's shouldInvoke, with lastCallTime undefined read as long ago
shouldInvoke(sinceCall, sinceInvoke) ==
  sinceCall >= MouseThrottle \/ sinceInvoke >= MouseThrottle

\* debounce's remainingWait
remainingWait(sinceCall, sinceInvoke) ==
  IF MouseThrottle - sinceCall < MouseThrottle - sinceInvoke
  THEN MouseThrottle - sinceCall
  ELSE MouseThrottle - sinceInvoke

capped(t) == IF t >= MouseThrottle THEN MouseThrottle ELSE t

\* a mousemove event reaches the throttled listener (debounced())
MouseMove ==
  \E ev \in MouseEvents :
    LET isInvoking == shouldInvoke(timeSinceLastCall, timeSinceLastInvoke)
        \* leadingEdge invokes when leading; with a timer pending the maxing
        \* branch invokes in any case
        invokes == isInvoking /\ (timerId # None \/ leading)
        out == mouseListener(ev)
    IN  /\ timeSinceLastCall' = 0
        /\ timerId' = IF isInvoking \/ timerId = None THEN Some(MouseThrottle) ELSE timerId
        /\ timeSinceLastInvoke' = IF isInvoking THEN 0 ELSE timeSinceLastInvoke
        /\ lastArgs' = IF invokes THEN None ELSE Some(ev)
        /\ hoveredNodes' = IF invokes THEN out.hovered ELSE hoveredNodes
        /\ sinceLeading' = IF invokes THEN 0 ELSE sinceLeading
        /\ sample' = [edge |-> IF invokes THEN "leading" ELSE "held",
                      ev |-> Some(ev),
                      hitTested |-> invokes /\ out.hitTested,
                      spaced |-> invokes => timeSinceLastInvoke >= MouseThrottle,
                      leadSpaced |-> invokes => sinceLeading >= MouseThrottle,
                      idleBefore |-> timeSinceLastCall >= MouseThrottle,
                      hadPending |-> lastArgs # None]
        /\ UNCHANGED <<geoVars, offVars, width, isContextMenuOpen, visualizerActive,
                       pointerOver, lastGateEvent>>

\* the timer set by debounce is due and its callback runs (timerExpired())
TimerExpired ==
  /\ timerId # None
  /\ timerId[1] = 0
  /\ IF shouldInvoke(timeSinceLastCall, timeSinceLastInvoke)
     THEN \* trailingEdge
          LET invokes == trailing /\ lastArgs # None
              out == mouseListener(lastArgs[1])
          IN  /\ timerId' = None
              /\ lastArgs' = None
              /\ timeSinceLastInvoke' = IF invokes THEN 0 ELSE timeSinceLastInvoke
              /\ hoveredNodes' = IF invokes THEN out.hovered ELSE hoveredNodes
              /\ sample' = [edge |-> IF invokes THEN "trailing" ELSE "expired",
                            ev |-> lastArgs,
                            hitTested |-> invokes /\ out.hitTested,
                            spaced |-> invokes => timeSinceLastInvoke >= MouseThrottle,
                            leadSpaced |-> TRUE,
                            idleBefore |-> FALSE,
                            hadPending |-> lastArgs # None]
     ELSE \* restart the timer
          /\ timerId' = Some(remainingWait(timeSinceLastCall, timeSinceLastInvoke))
          /\ UNCHANGED <<lastArgs, timeSinceLastInvoke, hoveredNodes, sample>>
  /\ UNCHANGED <<geoVars, offVars, width, isContextMenuOpen, visualizerActive,
                 pointerOver, lastGateEvent, timeSinceLastCall, sinceLeading>>

\* one millisecond passes; a due timer may still be waiting for its turn
Tick ==
  /\ timeSinceLastCall' = capped(timeSinceLastCall + 1)
  /\ timeSinceLastInvoke' = capped(timeSinceLastInvoke + 1)
  /\ sinceLeading' = capped(sinceLeading + 1)
  /\ timerId' = IF timerId = None \/ timerId[1] = 0 THEN timerId ELSE Some(timerId[1] - 1)
  /\ UNCHANGED <<geoVars, offVars, uiVars, lastArgs, sample>>

\* onMouseEnter of the surface
MouseEnter ==
  /\ focusState # None
  /\ snapshotNode # None
  /\ ~pointerOver
  /\ visualizerActive' = TRUE
  /\ pointerOver' = TRUE
  /\ lastGateEvent' = "enter"
  /\ UNCHANGED <<geoVars, offVars, throttleVars, width, isContextMenuOpen, hoveredNodes>>

\* onMouseLeave of the surface
MouseLeave ==
  /\ focusState # None
  /\ snapshotNode # None
  /\ pointerOver
  /\ hoveredNodes' = IF ~isContextMenuOpen THEN onHoverNode(<<>>) ELSE hoveredNodes
  /\ visualizerActive' = FALSE
  /\ pointerOver' = FALSE
  /\ lastGateEvent' = "leave"
  /\ UNCHANGED <<geoVars, offVars, throttleVars, width, isContextMenuOpen>>

\* the Dropdown reports the context menu opened by a right click on the surface
ContextMenuOpen ==
  /\ focusState # None
  /\ snapshotNode # None
  /\ pointerOver
  /\ ~isContextMenuOpen
  /\ isContextMenuOpen' = TRUE
  /\ UNCHANGED <<geoVars, offVars, throttleVars, width, visualizerActive, hoveredNodes,
                 pointerOver, lastGateEvent>>

\* the Dropdown reports the menu closed; the subscriber of isContextMenuOpen
\* sees false
ContextMenuClose ==
  /\ isContextMenuOpen
  /\ isContextMenuOpen' = FALSE
  /\ visualizerActive' = TRUE
  /\ lastGateEvent' = "close"
  /\ UNCHANGED <<geoVars, offVars, throttleVars, width, hoveredNodes, pointerOver>>

\* a root with every other node as its child, nothing dangling
SamplerNodes == ClientNodes([i \in 2..NumIds |-> 1], Null, Null, Null, {1})

InitSampler ==
  /\ nodes = SamplerNodes
  /\ snapshotNodeId \in {1, Ghost}
  /\ focusedNodeId = Null
  /\ rootNode = toNestedNode(snapshotNodeId, nodes)
  /\ focusState = IF rootNode = None THEN None
                  ELSE Some(caclulateFocusState(rootNode[1], focusedNodeId))
  /\ hitCall = None
  /\ InitOffset
  /\ InitListener

NextSampler ==
  \/ MouseMove
  \/ TimerExpired
  \/ Tick
  \/ MouseEnter
  \/ MouseLeave
  \/ ContextMenuOpen
  \/ ContextMenuClose

SpecSampler == InitSampler /\ [][NextSampler]_vars

\* ------------------------------------------------- vocabulary of the claims
\* the nodes of a projected tree, the root included
RECURSIVE SubtreeNodes(_)
SubtreeNodes(n) ==
  {n} \cup UNION {SubtreeNodes(n.children[i]) : i \in 1..Len(n.children)}

SubtreeIds(n) == {m.id : m \in SubtreeNodes(n)}

\* ids of the proper descendants of n
DescendantIds(n) == UNION {SubtreeIds(n.children[i]) : i \in 1..Len(n.children)}

\* every node of the tree under n paired with the pointer as its parent's
\* frame expresses it, when the pointer is m in the frame n is placed in
RECURSIVE FramePointers(_, _)
FramePointers(n, m) ==
  {[node |-> n, pointer |-> m]} \cup
  UNION {FramePointers(n.children[i], offsetCoordinate(m, n.bounds)) : i \in 1..Len(n.children)}

\* the path from n down to the first pre-order node with the id, <<>> if none
RECURSIVE PathTo(_, _)
RECURSIVE PathInChildren(_, _, _)
PathTo(n, id) ==
  IF n.id = id THEN <<n>>
  ELSE LET below == PathInChildren(n.children, 1, id)
       IN  IF below = <<>> THEN <<>> ELSE <<n>> \o below

PathInChildren(children, i, id) ==
  IF i > Len(children) THEN <<>>
  ELSE LET q == PathTo(children[i], id)
       IN  IF q # <<>> THEN q ELSE PathInChildren(children, i + 1, id)

RECURSIVE SumX(_)
SumX(path) == IF path = <<>> THEN 0 ELSE Head(path).bounds.x + SumX(Tail(path))

RECURSIVE SumY(_)
SumY(path) == IF path = <<>> THEN 0 ELSE Head(path).bounds.y + SumY(Tail(path))

\* the raw child ids of a node that resolve in the map, in their order
Resolving(raw) == SelectSeq(raw.children, LAMBDA c : c \in DOMAIN nodes)

HitDone == hitCall # None
HitOk == hitCall # None /\ ~hitCall[1].threw
HitRes == hitCall[1].res
HitIds == {HitRes[i].id : i \in 1..Len(HitRes)}
FocusedRoot == focusState[1].focusedRoot

\* C1: hitTest reports a node only if its bounds contain the pointer as its
\* parent's frame expresses it and no descendant of it, at any depth, is
\* reported as well
C1_InnermostWins ==
  HitOk =>
    \A i \in 1..Len(HitRes) :
      /\ \E fp \in FramePointers(FocusedRoot, hitCall[1].mouse) :
           /\ fp.node = HitRes[i]
           /\ boundsContainsCoordinate(fp.node.bounds, fp.pointer)
      /\ DescendantIds(HitRes[i]) \cap HitIds = {}

\* C2: a projected node's activeChildIdx is the position of the raw
\* activeChild among the resolving children when it is one of them, and is
\* undefined when activeChild is unset or is none of them
C2_ActiveChildIndex ==
  rootNode # None =>
    \A n \in SubtreeNodes(rootNode[1]) :
      LET raw == nodes[n.id]
          kept == Resolving(raw)
      IN  IF raw.activeChild # Null /\ \E i \in 1..Len(kept) : kept[i] = raw.activeChild
          THEN /\ n.activeChildIdx >= 0
               /\ n.activeChildIdx < Len(kept)
               /\ kept[n.activeChildIdx + 1] = raw.activeChild
          ELSE n.activeChildIdx = Undefined

\* C3: with a resolving root, project -> resolveFocus -> hitTest returns a
\* hit result at every pointer; no dangling reference makes it throw
C3_NeverThrows ==
  HitDone => ~hitCall[1].threw

\* C4: for a target in the tree, focusedRootGlobalOffset is the sum of the
\* bounds origins along the path from the root to the match, both included,
\* focusedRoot is the match with x = y = 0 and everything else unchanged,
\* and actualRoot is the unchanged root
C4_FocusOffset ==
  (focusState # None /\ focusedNodeId \in SubtreeIds(rootNode[1])) =>
    LET path == PathTo(rootNode[1], focusedNodeId)
        match == path[Len(path)]
        fs == focusState[1]
    IN  /\ fs.focusedRootGlobalOffset = [x |-> SumX(path), y |-> SumY(path)]
        /\ fs.focusedRoot.id = match.id
        /\ fs.focusedRoot.bounds = [x |-> 0, y |-> 0,
                                    width |-> match.bounds.width,
                                    height |-> match.bounds.height]
        /\ fs.focusedRoot.children = match.children
        /\ fs.focusedRoot.activeChildIdx = match.activeChildIdx
        /\ fs.actualRoot = rootNode[1]

C4_Witness ==
  /\ focusState # None
  /\ focusedNodeId \in SubtreeIds(rootNode[1])
  /\ Len(PathTo(rootNode[1], focusedNodeId)) >= 3
  /\ focusState[1].focusedRootGlobalOffset.x >= 2
  /\ PathTo(rootNode[1], focusedNodeId)[3].bounds.x > 0

\* C5: under a node whose activeChildIdx is a valid index, no non-active
\* sibling of the active child and no node below such a sibling is reported
C5_ActiveChildPruning ==
  HitOk =>
    \A n \in SubtreeNodes(FocusedRoot) :
      (n.activeChildIdx # Undefined /\ n.activeChildIdx >= 0
         /\ n.activeChildIdx < Len(n.children)) =>
        \A c \in 1..Len(n.children) :
          c # n.activeChildIdx + 1 => SubtreeIds(n.children[c]) \cap HitIds = {}

C5_Witness ==
  /\ HitOk
  /\ Len(HitRes) >= 1
  /\ LET n == FocusedRoot
     IN  /\ n.activeChildIdx # Undefined
         /\ n.activeChildIdx >= 0
         /\ n.activeChildIdx < Len(n.children)
         /\ HitRes[1].id \in SubtreeIds(n.children[n.activeChildIdx + 1])
         /\ \E c \in 1..Len(n.children) :
              /\ c # n.activeChildIdx + 1
              /\ Len(n.children[c].children) >= 1
              /\ boundsContainsCoordinate(n.children[c].bounds,
                                          offsetCoordinate(hitCall[1].mouse, n.bounds))

\* C6: project is undefined for an absent root id; otherwise every node's
\* children are the projections of exactly its resolving raw child ids, in
\* order, so no absent id occurs in the tree
C6_ProjectionFiltersDangling ==
  snapshotNodeId # Null =>
    IF snapshotNodeId \notin DOMAIN nodes THEN rootNode = None
    ELSE /\ rootNode # None
         /\ rootNode[1].id = snapshotNodeId
         /\ \A n \in SubtreeNodes(rootNode[1]) :
              /\ n.id \in DOMAIN nodes
              /\ n.bounds = nodes[n.id].bounds
              /\ [i \in 1..Len(n.children) |-> n.children[i].id] = Resolving(nodes[n.id])

C6_Witness ==
  /\ rootNode # None
  /\ \E n \in SubtreeNodes(rootNode[1]) :
       /\ Len(nodes[n.id].children) >= 3
       /\ nodes[n.id].children[1] = Ghost
       /\ Len(n.children) = 2

\* C7: the sequence hitTest returns is ascending in width * height
C7_SortedByArea ==
  HitOk => \A i, j \in 1..Len(HitRes) : i < j => area(HitRes[i]) <= area(HitRes[j])

C7_Witness ==
  /\ HitOk
  /\ Len(HitRes) >= 2
  /\ area(HitRes[1]) < area(HitRes[2])
  /\ HitRes[1].id > HitRes[2].id

\* the raw nodes from id up the parent links, ending where a link is null or
\* does not resolve
RECURSIVE ParentChain(_)
ParentChain(id) ==
  IF id = Null \/ id \notin DOMAIN nodes THEN <<>>
  ELSE <<nodes[id]>> \o ParentChain(nodes[id].parent)

\* the chain ends at an id that does not resolve (the argument itself included)
RECURSIVE EndsUnresolved(_)
EndsUnresolved(id) ==
  IF id = Null THEN FALSE
  ELSE IF id \notin DOMAIN nodes THEN TRUE
  ELSE EndsUnresolved(nodes[id].parent)

\* C8: getTotalOffset returns the sum of bounds.x / bounds.y over the id and
\* every ancestor reached through parent links up to a null or unresolved
\* parent, {0,0} for an id not in the map, and the walk ends after one
\* iteration per node of the chain (one more for an unresolved id)
C8_TotalOffset ==
  /\ offPc # "idle" =>
       offIters <= Len(ParentChain(offArg)) + (IF EndsUnresolved(offArg) THEN 1 ELSE 0)
  /\ offPc = "done" =>
       /\ offset = [x |-> SumX(ParentChain(offArg)), y |-> SumY(ParentChain(offArg))]
       /\ offArg \notin DOMAIN nodes => offset = [x |-> 0, y |-> 0]
       /\ offIters = Len(ParentChain(offArg)) + (IF EndsUnresolved(offArg) THEN 1 ELSE 0)

C8_Witness ==
  /\ offPc = "done"
  /\ Len(ParentChain(offArg)) >= 3
  /\ EndsUnresolved(offArg)
  /\ offset.x >= 3

SamplerStep == MouseMove \/ (TimerExpired /\ timerId' = None)

\* C10 as stated: a sample is hit-tested only while the context menu is
\* closed, focus/snapshot state is available and the pointer has entered the
\* surface and not left it since; otherwise the sampler leaves the hover set
C10_GatedByPointerInside ==
  [][SamplerStep =>
       /\ sample'.hitTested =>
            (~isContextMenuOpen /\ focusState # None /\ snapshotNode # None /\ pointerOver)
       /\ ~(~isContextMenuOpen /\ focusState # None /\ snapshotNode # None /\ pointerOver) =>
            hoveredNodes' = hoveredNodes]_vars

\* C10 amended: a sample is hit-tested only while the context menu is closed,
\* focus/snapshot state is available and the latest of the enter, leave and
\* context-menu-close events is an enter or a close; otherwise the sampler
\* leaves the hover set unchanged
C10_GatedByActiveFlag ==
  [][SamplerStep =>
       /\ sample'.hitTested =>
            (~isContextMenuOpen /\ focusState # None /\ snapshotNode # None
               /\ lastGateEvent \in {"enter", "close"})
       /\ ~(~isContextMenuOpen /\ focusState # None /\ snapshotNode # None
              /\ lastGateEvent \in {"enter", "close"}) =>
            hoveredNodes' = hoveredNodes]_vars

C10_Witness ==
  /\ sample.hitTested
  /\ lastGateEvent = "close"
  /\ ~pointerOver
  /\ ~isContextMenuOpen
  /\ hoveredNodes # <<>>

====
